---- MODULE Spec2Model ----
(***************************************************************************)
(* Model of the PopClip OpenRouter action (src/action.ts): one invocation  *)
(* of run(), the XMLHttpRequest transport of postJson with its three       *)
(* callbacks, reply extraction, output routing and error classification.   *)
(*                                                                         *)
(* Text is a sequence of one-character strings; literal message fragments  *)
(* of the program are single tokens.  A JavaScript value is a record with  *)
(* one field that names its type: [undef], [null], [bool], [num], [str],   *)
(* [arr] or [obj]; an object is a function from Keys to values, a missing  *)
(* property being Undef, which is what a property read of it yields.       *)
(* Record constructors list their fields in the order TLC keeps them.      *)
(***************************************************************************)
EXTENDS Integers, Sequences, FiniteSets, TLC

VARIABLES
  options,      \* popclip.options: apikey, systemPrompt, userPrompt, responseHandling
  input,        \* popclip.input.text
  pc,           \* position of run(): "start", "awaiting", "returned", "thrown"
  opened,       \* number of xhr.open calls
  requests,     \* payloads handed to xhr.send, in order
  promise,      \* the promise of postJson: [pending], [fulfilled] or [rejected]
  fired,        \* the transport callbacks the host fired, in order
  delivered,    \* outcomes the continuation of run() received from the await
  extracted,    \* bodies extractReply was applied to
  sinkCalls,    \* calls of popclip.copyText / showText / pasteText
  classified,   \* values of errorMsg computed by the catch block
  printed,      \* messages print() recorded
  raised        \* what the caller of run() received: [none], [message] or [value]

vars == <<options, input, pc, opened, requests, promise, fired, delivered,
          extracted, sinkCalls, classified, printed, raised>>

\* Number of transport callbacks the host may fire for the one request.
MaxEvents == 2

-----------------------------------------------------------------------------
(* Text *)

IsSpace(c) == c \in {" ", "\n", "\t"}

RECURSIVE TrimStart(_)
TrimStart(s) ==
  IF s # <<>> /\ IsSpace(Head(s)) THEN TrimStart(Tail(s)) ELSE s

RECURSIVE TrimEnd(_)
TrimEnd(s) ==
  IF s # <<>> /\ IsSpace(s[Len(s)]) THEN TrimEnd(SubSeq(s, 1, Len(s) - 1)) ELSE s

\* String.prototype.trim
Trim(s) == TrimEnd(TrimStart(s))

StartsWith(s, p) == Len(p) <= Len(s) /\ SubSeq(s, 1, Len(p)) = p

\* String.prototype.includes
Includes(s, p) == \E i \in 1..(Len(s) - Len(p) + 1) : SubSeq(s, i, i + Len(p) - 1) = p

\* The placeholder of the user prompt.
TextToken == <<"{", "{", "t", "e", "x", "t", "}", "}">>

\* GetSubstitution of String.prototype.replace for a pattern without capture
\* groups: "$$" is "$", "$&" the match, "$`" the text before the match, "$'"
\* the text after it; every other character, a lone "$" included, is itself.
RECURSIVE GetSubstitution(_, _, _, _)
GetSubstitution(matched, str, position, replacement) ==
  IF replacement = <<>> THEN <<>>
  ELSE IF Head(replacement) = "$" /\ Len(replacement) >= 2
            /\ replacement[2] \in {"$", "&", "`", "'"}
    THEN LET c == replacement[2]
             rest == SubSeq(replacement, 3, Len(replacement))
             out == CASE c = "$" -> <<"$">>
                      [] c = "&" -> matched
                      [] c = "`" -> SubSeq(str, 1, position - 1)
                      [] c = "'" -> SubSeq(str, position + Len(matched), Len(str))
         IN  out \o GetSubstitution(matched, str, position, rest)
    ELSE <<Head(replacement)>>
           \o GetSubstitution(matched, str, position, Tail(replacement))

\* str.replace(/{{text}}/g, replacement), scanning str from index i.
RECURSIVE ReplaceFrom(_, _, _)
ReplaceFrom(str, i, replacement) ==
  IF i > Len(str) THEN <<>>
  ELSE IF StartsWith(SubSeq(str, i, Len(str)), TextToken)
    THEN GetSubstitution(TextToken, str, i, replacement)
           \o ReplaceFrom(str, i + Len(TextToken), replacement)
    ELSE <<str[i]>> \o ReplaceFrom(str, i + 1, replacement)

ReplaceTextToken(str, replacement) == ReplaceFrom(str, 1, replacement)

-----------------------------------------------------------------------------
(* JavaScript values *)

Keys == {"message", "content", "choices", "error", "text"}

Undef == [undef |-> 0]
Null == [null |-> 0]
Num(n) == [num |-> n]
Str(s) == [str |-> s]
Arr(a) == [arr |-> a]
EmptyObj == [obj |-> [k \in Keys |-> Undef]]
Obj1(k, v) == [obj |-> [j \in Keys |-> IF j = k THEN v ELSE Undef]]
Obj2(k1, v1, k2, v2) ==
  [obj |-> [j \in Keys |-> IF j = k1 THEN v1 ELSE IF j = k2 THEN v2 ELSE Undef]]

IsUndef(v) == "undef" \in DOMAIN v
IsNull(v) == "null" \in DOMAIN v
IsString(v) == "str" \in DOMAIN v
IsArray(v) == "arr" \in DOMAIN v
IsPlainObject(v) == "obj" \in DOMAIN v

\* typeof v === "object"
TypeofObject(v) == IsNull(v) \/ IsArray(v) \/ IsPlainObject(v)

\* ToBoolean
Truthy(v) ==
  CASE IsUndef(v) -> FALSE
    [] IsNull(v) -> FALSE
    [] "bool" \in DOMAIN v -> v.bool
    [] "num" \in DOMAIN v -> v.num # 0
    [] IsString(v) -> v.str # <<>>
    [] OTHER -> TRUE

\* v && typeof v === "object"
IsObjectValue(v) == Truthy(v) /\ TypeofObject(v)

\* (v as {k?: unknown}).k, read after IsObjectValue(v)
Get(v, k) == IF IsPlainObject(v) THEN v.obj[k] ELSE Undef

\* v ?? d
Nullish(v, d) == IF IsUndef(v) \/ IsNull(v) THEN d ELSE v

-----------------------------------------------------------------------------
(* Errors and results *)

NewError(message) == [message |-> message, name |-> "Error"]
HttpStatusError(status, responseBody) ==
  [message |-> <<"HTTP ", ToString(status)>>, name |-> "HttpStatusError",
   status |-> status, responseBody |-> responseBody]
\* A value that is no instance of Error, for a host primitive that throws one.
NotAnError == [message |-> <<>>, name |-> "NotAnError"]
\* The exception of a host primitive (a sink, print) that fails.
HostError == NewError(<<"host failure">>)

Returned(v) == [ok |-> v]
Threw(e) == [err |-> e]
IsReturned(r) == "ok" \in DOMAIN r

-----------------------------------------------------------------------------
(* Reply extraction *)

PartText(part) ==
  IF IsString(part) THEN part.str
  ELSE IF IsObjectValue(part) /\ IsString(Get(part, "text")) THEN Get(part, "text").str
  ELSE <<>>

RECURSIVE JoinParts(_)
JoinParts(parts) ==
  IF parts = <<>> THEN <<>> ELSE PartText(Head(parts)) \o JoinParts(Tail(parts))

\* Mutant: the content is not trimmed.
normalizeReplyContentUntrimmed(content) ==
  IF IsString(content) THEN content.str
  ELSE IF IsArray(content) THEN JoinParts(content.arr)
  ELSE <<>>

normalizeReplyContent(content) ==
  IF IsString(content) THEN Trim(content.str)
  ELSE IF IsArray(content) THEN Trim(JoinParts(content.arr))
  ELSE <<>>

extractReply(data) ==
  IF ~IsObjectValue(data)
    THEN Threw(NewError(<<"API Error: invalid response payload">>))
  ELSE LET choices == Get(data, "choices") IN
  IF ~IsArray(choices) \/ Len(choices.arr) = 0
    THEN Threw(NewError(<<"API Error: no completion choices returned">>))
  ELSE LET firstChoice == choices.arr[1] IN
  IF ~IsObjectValue(firstChoice)
    THEN Threw(NewError(<<"API Error: invalid completion choice">>))
  ELSE LET message == Get(firstChoice, "message") IN
  IF ~IsObjectValue(message)
    THEN Threw(NewError(<<"API Error: invalid completion message">>))
  ELSE LET reply == normalizeReplyContent(Get(message, "content")) IN
  IF reply = <<>>
    THEN Threw(NewError(<<"API Error: empty completion message">>))
  ELSE Returned(reply)

-----------------------------------------------------------------------------
(* Transport: the promise of postJson and the body of xhr.onload *)

\* A response text is [enc |-> v], the JSON text of the value v, or
\* [raw |-> s], the text s, which is blank or which JSON.parse rejects.
IsJsonText(responseText) == "enc" \in DOMAIN responseText

\* responseText.trim().length > 0
NonBlankText(responseText) ==
  IsJsonText(responseText) \/ Trim(responseText.raw) # <<>>

\* let parsed = responseText; try { parsed = JSON.parse(responseText) } catch { ... }
ParseResponseText(responseText) ==
  IF NonBlankText(responseText) /\ IsJsonText(responseText)
    THEN responseText.enc
    ELSE Str(responseText.raw)

\* Mutant: the upper limit of the success range is included.
StatusOkInclusive(status) == status >= 200 /\ status <= 300
StatusOk(status) == status >= 200 /\ status < 300

Pending == [state |-> "pending"]
Fulfilled(status, data) == [status |-> status, data |-> data, state |-> "fulfilled"]
Rejected(reason) == [state |-> "rejected", reason |-> reason]

\* Mutant: a later resolve or reject replaces the outcome.
SettleLastWins(p, outcome) == outcome
\* resolve / reject of a promise: only the first call has an effect.
Settle(p, outcome) == IF p.state = "pending" THEN outcome ELSE p

\* The outcome xhr.onload hands to resolve or reject.
LoadOutcome(status, responseText) ==
  LET parsed == ParseResponseText(responseText) IN
  IF StatusOk(status) THEN Fulfilled(status, parsed)
  ELSE Rejected(HttpStatusError(status, parsed))

-----------------------------------------------------------------------------
(* Error classification: the catch block of run() *)

\* apiMessage of the catch block; Undef when it stays undefined.
ApiMessage(data) ==
  IF IsObjectValue(data)
    THEN LET apiError == Get(data, "error") IN
         IF IsObjectValue(apiError) /\ IsString(Get(apiError, "message"))
           THEN Get(apiError, "message")
           ELSE Undef
  ELSE IF IsString(data) THEN data
  ELSE Undef

ErrorMsg(error) ==
  IF error.name = "HttpStatusError"
    THEN <<"API Error ", ToString(error.status), ": ">>
           \o Nullish(ApiMessage(error.responseBody), Str(<<"Request failed">>)).str
  ELSE IF error.name = "Error"
    THEN <<"Network/Error: ">> \o error.message
  ELSE <<"Unknown Error">>

-----------------------------------------------------------------------------
(* run(): option checks, prompt assembly, output routing *)

\* const apikey = (options.apikey ?? "").trim(); if (!apikey) ...
ApiKey(opts) == Trim(Nullish(opts.apikey, Str(<<>>)).str)
\* Mutant: the key is tested before it is trimmed.
ApiKeyMissingUntrimmed(opts) == Nullish(opts.apikey, Str(<<>>)).str = <<>>
ApiKeyMissing(opts) == ApiKey(opts) = <<>>

\* options.p?.trim() is truthy
HasText(v) == IsString(v) /\ Trim(v.str) # <<>>

UserContent(opts, inputText) ==
  IF HasText(opts.userPrompt)
    THEN LET prompt == Trim(opts.userPrompt.str) IN
         IF Includes(prompt, TextToken)
           THEN ReplaceTextToken(prompt, inputText)
           ELSE prompt \o <<"\n", "\n">> \o inputText
    ELSE inputText

Messages(opts, inputText) ==
  (IF HasText(opts.systemPrompt)
     THEN <<[content |-> Trim(opts.systemPrompt.str), role |-> "system"]>>
     ELSE <<>>)
  \o <<[content |-> UserContent(opts, inputText), role |-> "user"]>>

\* The request handed to xhr.send: the messages and the Authorization header.
Payload(opts, text) ==
  [authorization |-> <<"Bearer ">> \o ApiKey(opts),
   messages |-> Messages(opts, Trim(text))]

ModeCopy == Str(<<"c", "o", "p", "y">>)
ModeShow == Str(<<"s", "h", "o", "w">>)
ModeReplace == Str(<<"r", "e", "p", "l", "a", "c", "e">>)
ModeAppend == Str(<<"a", "p", "p", "e", "n", "d">>)
ModeBogus == Str(<<"b", "o", "g", "u", "s">>)

\* A call popclip.<sink>(text) or popclip.showText(text, {preview: true}).
SinkCall(sink, text, preview) == [text |-> text, sink |-> sink, preview |-> preview]

\* Mutant: the default branch pastes the trimmed selection.
RouteTrimmedInput(mode, text, reply) ==
  IF mode = ModeCopy THEN SinkCall("copyText", reply, FALSE)
  ELSE IF mode = ModeShow THEN SinkCall("showText", reply, TRUE)
  ELSE IF mode = ModeReplace THEN SinkCall("pasteText", reply, FALSE)
  ELSE SinkCall("pasteText", Trim(text) \o <<"\n", "\n">> \o reply, FALSE)

\* The sink call of the chain of if / else if on options.responseHandling.
Route(mode, text, reply) ==
  IF mode = ModeCopy THEN SinkCall("copyText", reply, FALSE)
  ELSE IF mode = ModeShow THEN SinkCall("showText", reply, TRUE)
  ELSE IF mode = ModeReplace THEN SinkCall("pasteText", reply, FALSE)
  ELSE SinkCall("pasteText", text \o <<"\n", "\n">> \o reply, FALSE)

NotRaised == [state |-> "none"]
RaisedError(e) == [state |-> "thrown", error |-> e]

-----------------------------------------------------------------------------
(* Inputs *)

ApiKeys == {Undef, Str(<<>>), Str(<<" ", " ">>), Str(<<" ", "k">>)}
Modes == {ModeCopy, ModeShow, ModeReplace, ModeAppend, ModeBogus, Undef}
InputTexts == {<<" ", "h", "i", "\n">>}
NoPrompts == {Undef}

Statuses == {199, 200, 299, 300, 429}

Hi == <<"h", "i">>
Contents ==
  {Undef, Null, Num(7), EmptyObj,
   Str(<<>>), Str(<<" ", "\n">>), Str(Hi), Str(<<" ">> \o Hi \o <<"\n">>),
   Arr(<<>>), Arr(<<EmptyObj>>), Arr(<<Str(<<" ">>), Null, Obj1("text", Num(7))>>),
   Arr(<<Str(<<"a", " ">>), Obj1("text", Str(<<"b">>)), Num(7), Str(<<"c", " ">>)>>),
   Arr(<<Arr(<<Str(Hi)>>), Obj1("content", Str(Hi))>>)}
ChatMessages ==
  {Undef, Null, Str(Hi), EmptyObj, Arr(<<Str(Hi)>>)}
    \cup {Obj1("content", c) : c \in Contents \ {Undef}}
GoodMessage == Obj1("content", Str(Hi))
ChoiceLists ==
  {Undef, Null, Str(Hi), EmptyObj, Arr(<<>>), Arr(<<Null>>), Arr(<<Str(Hi)>>),
   Arr(<<Num(0)>>), Arr(<<Null, Obj1("message", GoodMessage)>>),
   Arr(<<Obj1("message", GoodMessage), Null>>),
   Arr(<<Obj1("content", Str(Hi))>>)}
    \cup {Arr(<<Obj1("message", m)>>) : m \in ChatMessages}
RateLimited == <<"r", "a", "t", "e", " ", "l", "i", "m", "i", "t", "e", "d">>
ErrorFields ==
  {Null, Str(Hi), Num(7), EmptyObj, Arr(<<Str(Hi)>>),
   Obj1("message", Str(RateLimited)), Obj1("message", Str(<<>>)),
   Obj1("message", Num(7)), Obj1("message", Null),
   Obj1("message", Obj1("message", Str(Hi)))}
\* The values a response body can be the JSON text of.
JsonBodies ==
  {Null, Num(0), Num(7), Str(<<>>), Str(Hi), Arr(<<>>), Arr(<<Str(Hi)>>)}
    \cup {Obj1("choices", ch) : ch \in ChoiceLists}
    \cup {Obj1("error", e) : e \in ErrorFields}
    \cup {Obj2("choices", Arr(<<Obj1("message", GoodMessage)>>),
               "error", Obj1("message", Str(RateLimited))),
          Obj1("message", GoodMessage)}
ResponseTexts ==
  {[enc |-> v] : v \in JsonBodies}
    \cup {[raw |-> s] : s \in {<<>>, <<" ", "\n">>, <<"o", "o", "p", "s">>}}

-----------------------------------------------------------------------------
(* The state machine *)

InitWith(keys, modes, systemPrompts, userPrompts, texts) ==
  /\ options \in [apikey : keys, responseHandling : modes,
                  systemPrompt : systemPrompts, userPrompt : userPrompts]
  /\ input \in texts
  /\ pc = "start"
  /\ opened = 0
  /\ requests = <<>>
  /\ promise = Pending
  /\ fired = <<>>
  /\ delivered = <<>>
  /\ extracted = <<>>
  /\ sinkCalls = <<>>
  /\ classified = <<>>
  /\ printed = <<>>
  /\ raised = NotRaised

Init == InitWith(ApiKeys, Modes, NoPrompts, NoPrompts, InputTexts)

\* run() up to its await: the API key check, prompt assembly, and the
\* executor of postJson (open, handlers, send).
Run ==
  /\ pc = "start"
  /\ IF ApiKeyMissing(options)
       THEN /\ pc' = "thrown"
            /\ raised' = RaisedError(NewError(<<"Settings error: API Key is required">>))
            /\ UNCHANGED <<opened, requests>>
       ELSE /\ pc' = "awaiting"
            /\ opened' = opened + 1
            /\ requests' = Append(requests, Payload(options, input))
            /\ UNCHANGED raised
  /\ UNCHANGED <<options, input, promise, fired, delivered, extracted,
                 sinkCalls, classified, printed>>

\* The host fires a transport callback of the request that was sent.
CanFire == requests # <<>> /\ Len(fired) < MaxEvents

\* What a callback leaves alone: it only calls resolve or reject.
runState == <<options, input, pc, opened, requests, delivered, extracted,
              sinkCalls, classified, printed, raised>>

OnLoad == \E status \in Statuses, responseText \in ResponseTexts :
  /\ CanFire
  /\ fired' = Append(fired, "onload")
  /\ promise' = Settle(promise, LoadOutcome(status, responseText))
  /\ UNCHANGED runState

\* Mutant: a network failure sends the request again.
OnErrorRetry ==
  /\ CanFire
  /\ fired' = Append(fired, "onerror")
  /\ requests' = Append(requests, requests[1])
  /\ UNCHANGED <<options, input, pc, opened, promise, delivered, extracted,
                 sinkCalls, classified, printed, raised>>

OnError ==
  /\ CanFire
  /\ fired' = Append(fired, "onerror")
  /\ promise' = Settle(promise, Rejected(NewError(<<"Network request failed">>)))
  /\ UNCHANGED runState

OnTimeout ==
  /\ CanFire
  /\ fired' = Append(fired, "ontimeout")
  /\ promise' = Settle(promise, Rejected(NewError(<<"Request timeout">>)))
  /\ UNCHANGED runState

\* Mutant: the catch block records the message and does not throw.
CatchSwallow(error, printThrows) ==
  /\ classified' = Append(classified, ErrorMsg(error))
  /\ printed' = Append(printed, ErrorMsg(error))
  /\ raised' = raised
  /\ pc' = "returned"

\* The catch block: classify, print, throw.  A print that throws ends the
\* block with its own exception, before the throw statement.
Catch(error, printThrows) ==
  /\ classified' = Append(classified, ErrorMsg(error))
  /\ IF printThrows
       THEN /\ printed' = printed
            /\ raised' = RaisedError(HostError)
       ELSE /\ printed' = Append(printed, ErrorMsg(error))
            /\ raised' = RaisedError(NewError(ErrorMsg(error)))
  /\ pc' = "thrown"

\* The thrown value of a sink that fails.
SinkOutcomes == {"ok", "error", "other"}

\* run() after its await: the settled promise is received, then either
\* extractReply and the sink call, or the catch block.
Resume == \E sinkOutcome \in SinkOutcomes, printThrows \in BOOLEAN :
  /\ pc = "awaiting"
  /\ promise.state # "pending"
  /\ delivered' = Append(delivered, promise)
  /\ IF promise.state = "rejected"
       THEN /\ Catch(promise.reason, printThrows)
            /\ UNCHANGED <<extracted, sinkCalls>>
       ELSE LET result == extractReply(promise.data) IN
            /\ extracted' = Append(extracted, promise.data)
            /\ IF ~IsReturned(result)
                 THEN /\ Catch(result.err, printThrows)
                      /\ UNCHANGED sinkCalls
                 ELSE /\ sinkCalls' = Append(sinkCalls,
                            Route(options.responseHandling, input, result.ok))
                      /\ IF sinkOutcome = "ok"
                           THEN /\ pc' = "returned"
                                /\ UNCHANGED <<classified, printed, raised>>
                           ELSE Catch(IF sinkOutcome = "error" THEN HostError
                                                              ELSE NotAnError,
                                      printThrows)
  /\ UNCHANGED <<options, input, opened, requests, promise, fired>>

Next == Run \/ OnLoad \/ OnError \/ OnTimeout \/ Resume

Spec == Init /\ [][Next]_vars

\* Prompt assembly over many prompts and selections, with a valid key and a
\* server that never answers.
PromptKeys == {Str(<<" ", "k">>)}
PromptModes == {ModeAppend}
SystemPrompts == {Undef, Str(<<" ">>), Str(<<" ", "s", "y", "s", " ">>)}
UserPrompts ==
  {Undef, Str(<<>>), Str(<<" ", "\n">>), Str(<<"S", "u", "m">>),
   Str(TextToken), Str(<<" ", "T", ":", " ">> \o TextToken \o <<"!", " ">>),
   Str(TextToken \o <<"-">> \o TextToken),
   Str(<<"a">> \o TextToken \o <<"b">> \o TextToken \o <<"c">>),
   Str(<<"{", "{", "t", "e", "x", "t", "}">>), Str(<<"{">> \o TextToken \o <<"}">>)}
SelectedTexts ==
  {<<>>, <<" ">>, <<"h", "e", "l", "l", "o">>, <<" ", "h", "i", "\n">>, TextToken,
   <<"$">>, <<"$", "$">>, <<"$", "&">>, <<"$", "`">>, <<"$", "'">>, <<"$", "1">>,
   <<"a", "$", "$", "b">>, <<"$", "5", ".", "0", "0">>}

PromptInit == InitWith(PromptKeys, PromptModes, SystemPrompts, UserPrompts, SelectedTexts)

PromptNext == Run \/ OnError \/ OnTimeout \/ Resume

PromptSpec == PromptInit /\ [][PromptNext]_vars

-----------------------------------------------------------------------------
(* Properties *)

SettingsMessage == <<"Settings error: API Key is required">>
Failed == pc = "thrown"
AfterAwait == delivered # <<>>
Outcome == delivered[1]
TransportFailed == AfterAwait /\ Outcome.state = "rejected"
ExtractionFailed ==
  AfterAwait /\ Outcome.state = "fulfilled" /\ ~IsReturned(extractReply(Outcome.data))
ExtractionSucceeded ==
  AfterAwait /\ Outcome.state = "fulfilled" /\ IsReturned(extractReply(Outcome.data))
NonBlank(s) == \E i \in 1..Len(s) : ~IsSpace(s[i])
KeyAbsentOrBlank == IsUndef(options.apikey) \/ ~NonBlank(options.apikey.str)

\* C1: every failed invocation printed exactly one message, and that message
\* is the one raised to the caller.
C1_FailurePrintedAndRaised ==
  Failed => /\ Len(printed) = 1
            /\ raised = RaisedError(NewError(printed[1]))

\* C2: with an API key that is absent or blank, run() fails with the settings
\* error, and no request is opened or sent and no sink is called.
C2_NoKeyNoRequestNoSink ==
  KeyAbsentOrBlank =>
    /\ opened = 0 /\ requests = <<>> /\ fired = <<>> /\ sinkCalls = <<>>
    /\ pc \in {"start", "thrown"}
    /\ Failed => raised = RaisedError(NewError(SettingsMessage))

C2_Witness ==
  /\ options.apikey = Str(<<" ", " ">>)
  /\ Failed
  /\ raised = RaisedError(NewError(SettingsMessage))

\* C3: whatever callbacks fire and in whatever order, run() receives one
\* outcome, that of the first callback; after a timeout (or network failure)
\* came first no reply is extracted and no sink is called.
C3_OneOutcome ==
  /\ Len(delivered) <= 1
  /\ (promise.state = "pending") = (fired = <<>>)
  /\ AfterAwait =>
       /\ Outcome = promise
       /\ Head(fired) = "ontimeout" =>
            /\ Outcome = Rejected(NewError(<<"Request timeout">>))
            /\ extracted = <<>> /\ sinkCalls = <<>> /\ Failed
       /\ Head(fired) = "onerror" =>
            /\ Outcome = Rejected(NewError(<<"Network request failed">>))
            /\ extracted = <<>> /\ sinkCalls = <<>> /\ Failed
       /\ Head(fired) = "onload" =>
            \/ Outcome.state = "fulfilled"
            \/ Outcome.state = "rejected" /\ Outcome.reason.name = "HttpStatusError"

C3_Witness ==
  /\ fired = <<"ontimeout", "onload">>
  /\ AfterAwait /\ Failed
  /\ printed = <<<<"Network/Error: ", "Request timeout">>>>

\* C4: at most one request is opened and sent; after a transport failure, a
\* non-2xx status or a malformed body the invocation has failed with one
\* classified message and still only one request was sent.
C4_AtMostOnePost ==
  /\ opened <= 1 /\ Len(requests) <= 1
  /\ (TransportFailed \/ ExtractionFailed) =>
       /\ Failed /\ Len(requests) = 1 /\ Len(classified) = 1

C4_Witness ==
  /\ fired = <<"onerror", "onerror">>
  /\ TransportFailed /\ Failed /\ Len(requests) = 1

\* C5: a finished invocation either returned after exactly one sink call or
\* threw one error; there is never more than one sink call, and none when the
\* transport or the reply extraction failed.
C5_OneEnding ==
  /\ Len(sinkCalls) <= 1
  /\ pc = "returned" => Len(sinkCalls) = 1 /\ raised = NotRaised /\ classified = <<>>
  /\ Failed => raised.state = "thrown" /\ raised.error.name = "Error"
  /\ pc \in {"start", "awaiting"} => raised = NotRaised /\ sinkCalls = <<>>
  /\ (TransportFailed \/ ExtractionFailed) => sinkCalls = <<>> /\ Failed

C5_Witness ==
  /\ pc = "returned" /\ Len(sinkCalls) = 1 /\ raised = NotRaised
  /\ Len(fired) = MaxEvents

\* The message of a status failure, as the claim words it.
StatusMessage(body) ==
  CASE IsPlainObject(body) /\ TypeofObject(body.obj.error)
         /\ IsString(Get(body.obj.error, "message"))
         -> body.obj.error.obj.message.str
    [] IsString(body) -> body.str
    [] OTHER -> <<"Request failed">>

\* C6: a response is a success exactly when its status is in [200,300); any
\* other status fails with "API Error {status}: {message}".
C6_StatusClassification ==
  AfterAwait /\ Head(fired) = "onload" =>
    /\ Outcome.state = "fulfilled" => Outcome.status \in 200..299
    /\ Outcome.state = "rejected" =>
         /\ Outcome.reason.status \notin 200..299
         /\ Failed
         /\ classified = << <<"API Error ", ToString(Outcome.reason.status), ": ">>
                              \o StatusMessage(Outcome.reason.responseBody) >>
         /\ printed # <<>> => /\ printed = classified
                              /\ raised = RaisedError(NewError(classified[1]))

C6_Witness ==
  /\ AfterAwait
  /\ Outcome = Rejected(HttpStatusError(429, Obj1("error", Obj1("message", Str(RateLimited)))))
  /\ raised = RaisedError(NewError(<<"API Error ", "429", ": ">> \o RateLimited))

\* The sink call the claim prescribes for a mode.
ModeCall(mode, reply) ==
  CASE mode = ModeCopy -> SinkCall("copyText", reply, FALSE)
    [] mode = ModeShow -> SinkCall("showText", reply, TRUE)
    [] mode = ModeReplace -> SinkCall("pasteText", reply, FALSE)
    [] OTHER -> SinkCall("pasteText", input \o <<"\n", "\n">> \o reply, FALSE)

\* C7: after a successful extraction exactly the sink call of the mode is
\* made; "append", an absent mode and an unknown mode paste
\* "{originalInput}\n\n{reply}".
C7_ModeRouting ==
  ExtractionSucceeded =>
    sinkCalls = <<ModeCall(options.responseHandling, extractReply(Outcome.data).ok)>>

C7_Witness ==
  /\ options.responseHandling = ModeBogus
  /\ pc = "returned"
  /\ sinkCalls = <<SinkCall("pasteText",
                             <<" ", "h", "i", "\n", "\n", "\n", "h", "i">>, FALSE)>>

\* The text of a content value, as the claim words it.
RECURSIVE ContentText(_)
ContentText(c) ==
  IF IsString(c) THEN c.str
  ELSE IF IsArray(c) /\ c.arr # <<>>
    THEN LET n == Len(c.arr)
             last == c.arr[n]
         IN  ContentText(Arr(SubSeq(c.arr, 1, n - 1)))
               \o (IF IsString(last) THEN last.str
                   ELSE IF IsPlainObject(last) /\ IsString(last.obj.text)
                     THEN last.obj.text.str
                   ELSE <<>>)
  ELSE <<>>

FirstContent(body) == body.obj.choices.arr[1].obj.message.obj.content

WellFormedBody(body) ==
  /\ IsPlainObject(body)
  /\ IsArray(body.obj.choices) /\ Len(body.obj.choices.arr) >= 1
  /\ IsPlainObject(body.obj.choices.arr[1])
  /\ IsPlainObject(body.obj.choices.arr[1].obj.message)
  /\ NonBlank(ContentText(FirstContent(body)))

MalformedMessages ==
  {<<"Network/Error: ", m>> :
     m \in {"API Error: invalid response payload",
            "API Error: no completion choices returned",
            "API Error: invalid completion choice",
            "API Error: invalid completion message",
            "API Error: empty completion message"}}

\* The reply inside the text a sink received.
SinkReply(call) ==
  IF call.sink = "pasteText"
       /\ options.responseHandling \notin {ModeCopy, ModeShow, ModeReplace}
    THEN SubSeq(call.text, Len(input) + 3, Len(call.text))
    ELSE call.text

\* C8: a 2xx response reaches a sink only with a well-formed body whose
\* content is non-blank; every other 2xx body fails as a malformed response;
\* the reply a sink receives is trimmed and non-empty.
C8_ReplyShape ==
  AfterAwait /\ Outcome.state = "fulfilled" =>
    /\ sinkCalls # <<>> => WellFormedBody(Outcome.data)
    /\ ~WellFormedBody(Outcome.data) =>
         /\ Failed /\ sinkCalls = <<>>
         /\ Len(classified) = 1 /\ classified[1] \in MalformedMessages
    /\ sinkCalls # <<>> =>
         LET r == SinkReply(sinkCalls[1]) IN
           /\ r # <<>> /\ ~IsSpace(r[1]) /\ ~IsSpace(r[Len(r)])
           /\ r = Trim(ContentText(FirstContent(Outcome.data)))

C8_Witness ==
  /\ AfterAwait /\ Outcome.state = "fulfilled"
  /\ WellFormedBody(Outcome.data)
  /\ FirstContent(Outcome.data)
       = Arr(<<Str(<<"a", " ">>), Obj1("text", Str(<<"b">>)), Num(7), Str(<<"c", " ">>)>>)
  /\ sinkCalls = <<SinkCall("copyText", <<"a", " ", "b", "c">>, FALSE)>>

\* A 2xx body whose content normalizes to the empty string fails.
C8_EmptyContentWitness ==
  /\ AfterAwait /\ Outcome.state = "fulfilled"
  /\ Outcome.data = Obj1("choices", Arr(<<Obj1("message", Obj1("content", Arr(<<EmptyObj>>)))>>))
  /\ printed = <<<<"Network/Error: ", "API Error: empty completion message">>>>

\* C9: whenever the catch block classified a failure, the caller receives
\* the classified message, also when print itself fails.
C9_PrintFailureDoesNotMask ==
  classified # <<>> => /\ Failed
                       /\ raised = RaisedError(NewError(classified[1]))

\* C9, the part the code keeps: a print that returns recorded the classified
\* message, and that message is the one raised.
C9_WhenPrintReturns ==
  classified # <<>> /\ printed # <<>> =>
    /\ printed = classified
    /\ raised = RaisedError(NewError(classified[1]))

\* Every occurrence of the placeholder replaced by the text taken literally.
RECURSIVE LiteralReplace(_, _)
LiteralReplace(s, t) ==
  IF Len(s) < Len(TextToken) THEN s
  ELSE IF SubSeq(s, 1, Len(TextToken)) = TextToken
    THEN t \o LiteralReplace(SubSeq(s, Len(TextToken) + 1, Len(s)), t)
    ELSE <<Head(s)>> \o LiteralReplace(Tail(s), t)

\* The user content the claim prescribes.
PromptContent(userPrompt, text) ==
  IF IsUndef(userPrompt) \/ ~NonBlank(userPrompt.str) THEN Trim(text)
  ELSE IF Includes(Trim(userPrompt.str), TextToken)
    THEN LiteralReplace(Trim(userPrompt.str), Trim(text))
  ELSE Trim(userPrompt.str) \o <<"\n", "\n">> \o Trim(text)

SentContent == requests[1].messages[Len(requests[1].messages)].content

\* C10: the user message is the prompt with every {{text}} replaced by the
\* trimmed selection taken literally; without the token it is the prompt,
\* a blank line and the selection; without a prompt it is the selection.
C10_UserContent ==
  requests # <<>> => SentContent = PromptContent(options.userPrompt, input)

\* C10, the part the code keeps: the same for every selection without "$".
C10_UserContentWithoutDollar ==
  requests # <<>> /\ (\A i \in 1..Len(input) : input[i] # "$") =>
    SentContent = PromptContent(options.userPrompt, input)

====
